---- MODULE Spec2Model ----
(***************************************************************************)
(* The trade-decision execution pipeline of forge-ai:                      *)
(*   executeTradeDecisions -> executeTradeWithValidation -> validateTrade, *)
(*   executeWithRetry(trade + getTransaction), getSwapDetails,             *)
(*   recordSuccessfulTx / recordFailedTx.                                  *)
(* Every await of the source is one step of the model; what an external    *)
(* collaborator (validators, trading backend, RPC connection, swap-detail  *)
(* lookup, persistence store) answers is chosen nondeterministically.      *)
(***************************************************************************)
EXTENDS Integers, Sequences, FiniteSets, TLC

VARIABLES
    decisions,       \* ctx.tradeDecisions
    isPaperTrading,  \* ctx.isPaperTrading
    toExecute,       \* tradesDecisionsToExecute, as positions in decisions
    idx,             \* position in toExecute of the decision of the current loop iteration
    results,         \* results
    pc,              \* the await the control is suspended at
    retryCount,      \* executeWithRetry's retryCount
    tradeTx,         \* tradeTx of the retried closure
    tx,              \* tx of executeTradeWithValidation
    swapDetails,     \* swapDetails of executeTradeWithValidation
    e,               \* the error caught by executeTradeWithValidation
    outcome,         \* how executeTradeWithValidation's promise settled
    db,              \* the rows created through prisma.transaction.create
    verdict,         \* history: what each validator answered for the current decision
    tradeCalls,      \* history: calls of solanaAgent.trade for the current decision
    confirmCalls,    \* history: calls of connection.getTransaction for the current decision
    swapCalls,       \* history: calls of getSwapDetails for the current decision
    lookup,          \* history: how the getSwapDetails call of the current decision ended
    sleeps,          \* history: the backoff sleeps of the current decision, in order
    failures,        \* history: failed attempts of the retried operation
    lastOpError,     \* history: the error thrown by the latest finished attempt, if it threw
    created,         \* history: how the two record creations of the current decision ended
    reason,          \* history: the reason of the validator that rejected the current decision
    tradeArgs,       \* history: the arguments of the latest solanaAgent.trade call
    interval,        \* AutoClient.interval
    staggerMs,       \* staggerMs of the AutoClient constructor
    staggerTimer,    \* the setTimeout of the AutoClient constructor: armed or fired
    scheduled,       \* whether the runtime holds an active setInterval of the client
    stopCalled,      \* history: AutoClient.stop() has been called
    thoughts,        \* history: invocations of logRandomThoughts
    thoughtsAfterStop \* history: invocations of logRandomThoughts after stop()

pipelineVars == <<decisions, isPaperTrading, toExecute, idx, results, pc,
                  retryCount, tradeTx, tx, swapDetails, e, outcome, db, verdict,
                  tradeCalls, confirmCalls, swapCalls, lookup, sleeps, failures,
                  lastOpError, created, reason, tradeArgs>>

clientVars == <<interval, staggerMs, staggerTimer, scheduled, stopCalled, thoughts,
                thoughtsAfterStop>>

vars == <<pipelineVars, clientVars>>

-----------------------------------------------------------------------------
(* Bounds and program constants *)

MaxDecisions == 2

\* logRandomThoughts invocations followed per client
MaxThoughts == 3

\* Math.floor(Math.random() * (60 + 1)) is one of 0..60
StaggerMinutes == 60

MAX_RETRIES == 3

BACKOFF_BASE == 1000

DUMMY_TRANSACTION_HASH ==
    "0000000000000000000000000000000000000000000000000000000000000000"

\* An unset local, a null column, an undefined property.
None == "<none>"

-----------------------------------------------------------------------------
(* What the collaborators can answer *)

Decision == [shouldOpen : BOOLEAN, shouldClose : BOOLEAN]

DecisionSeqs == UNION {[1..n -> Decision] : n \in 0..MaxDecisions}

TradeReasons == {"Trust score too low", "Insufficient liquidity"}

PositionReasons == {"Position size exceeds liquidity limit"}

Verdicts(reasons) ==
    {[isValid |-> TRUE]} \cup {[isValid |-> FALSE, reason |-> r] : r \in reasons}

TxIds == {"sig1", "sig2"}

SubmitErrors == {"Swap failed", "Blockhash expired"}

ConfirmErrors == {"RPC request failed"}

SwapLookupErrors == {"Failed to parse transaction"}

\* What getSwapDetails can resolve to: nothing (null/undefined), an object whose
\* output amount is missing, one whose input amount is 0, a complete one.
SwapYields ==
    {[present |-> FALSE],
     [present |-> TRUE, inputAmount |-> 5],
     [present |-> TRUE, inputAmount |-> 0, outputAmount |-> 5],
     [present |-> TRUE, inputAmount |-> 5, outputAmount |-> 7]}

PersistError(status) == "Record create failed: " \o status

TypeErrorMessage == "Cannot read properties of undefined (reading 'toString')"

-----------------------------------------------------------------------------
(* Pure parts of the source *)

\* Mutant: the filter keeps the decisions to open only.
ShouldExecuteOpenOnly(d) == d.shouldOpen

\* (d) => d.shouldOpen || d.shouldClose
ShouldExecute(d) == d.shouldOpen \/ d.shouldClose

RECURSIVE FilterFrom(_, _)
FilterFrom(ds, i) ==
    IF i > Len(ds) THEN <<>>
    ELSE IF ShouldExecute(ds[i]) THEN <<i>> \o FilterFrom(ds, i + 1)
    ELSE FilterFrom(ds, i + 1)

\* ctx.tradeDecisions.filter(...): the kept decisions, in input order
Filter(ds) == FilterFrom(ds, 1)

\* Mutant: the verdict of a validator is ignored.
RejectedNever(validation) == FALSE

\* if (!validation.isValid) / if (!positionValidation.isValid)
Rejected(validation) == ~validation.isValid

\* Mutant: the thrown message leaves the validator's reason out.
TradeValidationErrorNoReason(validation) == "Trade validation failed"

TradeValidationError(validation) ==
    "Trade validation failed: " \o validation.reason

PositionValidationError(validation) ==
    "Position size validation failed: " \o validation.reason

\* Mutant: the swap is submitted whatever the mode.
SubmitsSwapAlways(paper) == TRUE

\* if (!isPaperTrading) around executeWithRetry
SubmitsSwap(paper) == ~paper

\* Mutant: the ceiling is compared with > instead of >=.
RetryExhaustedLate(count) == count > MAX_RETRIES

\* if (retryCount >= MAX_RETRIES) throw error
RetryExhausted(count) == count >= MAX_RETRIES

\* Mutant: a linear backoff instead of an exponential one.
BackoffTimeLinear(count) == BACKOFF_BASE * 2 * count

\* BACKOFF_BASE * Math.pow(2, retryCount)
BackoffTime(count) == BACKOFF_BASE * (2 ^ count)

\* !x for an amount property: undefined and 0 are falsy
Falsy(sd, f) == f \notin DOMAIN sd \/ sd[f] = 0

\* Mutant: the validity check forgets the output amount.
InvalidSwapInputOnly(paper, sd) ==
    /\ ~paper
    /\ (~sd.present \/ Falsy(sd, "inputAmount"))

\* !isPaperTrading && (!swapDetails?.inputAmount || !swapDetails?.outputAmount)
InvalidSwap(paper, sd) ==
    /\ ~paper
    /\ \/ ~sd.present
       \/ Falsy(sd, "inputAmount")
       \/ Falsy(sd, "outputAmount")

\* swapDetails?.inputAmount.toString(): the ?. guards swapDetails only, so the
\* call of toString on a missing amount of a present object is a TypeError
ToStringThrows(sd) ==
    /\ sd.present
    /\ \/ "inputAmount" \notin DOMAIN sd
       \/ "outputAmount" \notin DOMAIN sd

Digit(n) == <<"0", "1", "2", "3", "4", "5", "6", "7", "8", "9">>[n + 1]

RECURSIVE NumberToString(_)
\* Number.prototype.toString of a natural number
NumberToString(n) ==
    IF n < 10 THEN Digit(n) ELSE NumberToString(n \div 10) \o Digit(n % 10)

AmountString(sd, f) == IF sd.present THEN NumberToString(sd[f]) ELSE None

Side(d) == IF d.shouldOpen THEN "BUY" ELSE "SELL"

\* Mutant: recordFailedTx stores the transaction id and the amounts the pipeline
\* had got hold of when it failed.
FailedRecordWithTx(k, d, error) ==
    [decision |-> k, side |-> Side(d), status |-> "FAILED", type |-> Side(d),
     tokenFromAmount |-> IF swapDetails.present /\ "inputAmount" \in DOMAIN swapDetails
                         THEN NumberToString(swapDetails.inputAmount) ELSE "0",
     tokenToAmount |-> "0",
     failureReason |-> error,
     transactionHash |-> IF tx = None THEN DUMMY_TRANSACTION_HASH ELSE tx]

\* the data of recordFailedTx's create; decision is the history link to the decision
FailedRecord(k, d, error) ==
    [decision |-> k, side |-> Side(d), status |-> "FAILED", type |-> Side(d),
     tokenFromAmount |-> "0", tokenToAmount |-> "0",
     failureReason |-> error, transactionHash |-> DUMMY_TRANSACTION_HASH]

\* the data of recordSuccessfulTx's create
OpenRecord(k, d, hash, sd) ==
    [decision |-> k, side |-> Side(d), status |-> "OPEN", type |-> Side(d),
     tokenFromAmount |-> AmountString(sd, "inputAmount"),
     tokenToAmount |-> AmountString(sd, "outputAmount"),
     failureReason |-> None, transactionHash |-> hash]

\* Mutant: the try of the loop pushes the dummy hash instead of the returned id.
SuccessResultDummy(k, hash) ==
    [decision |-> k, transactionHash |-> DUMMY_TRANSACTION_HASH, success |-> TRUE]

\* results.push({decision, transactionHash: tx, success: true})
SuccessResult(k, hash) ==
    [decision |-> k, transactionHash |-> hash, success |-> TRUE]

\* Mutant: the catch of the loop pushes the id the run had got hold of.
FailureResultKeepsHash(k, error) ==
    [decision |-> k, transactionHash |-> IF tx = None THEN "" ELSE tx,
     success |-> FALSE, error |-> error]

\* results.push({decision, transactionHash: "", success: false, error})
FailureResult(k, error) ==
    [decision |-> k, transactionHash |-> "", success |-> FALSE, error |-> error]

\* Mutant: the catch block swallows the error and returns the dummy hash.
Swallow(error) == [kind |-> "returned", tx |-> DUMMY_TRANSACTION_HASH]

\* throw e at the end of the pipeline's catch block
Rethrow(error) == [kind |-> "thrown", error |-> error]

\* return tx
Return(hash) == [kind |-> "returned", tx |-> hash]

\* the try and the catch of the loop body of executeTradeDecisions
ResultOf(k, settled) ==
    IF settled.kind = "returned" THEN SuccessResult(k, settled.tx)
    ELSE FailureResult(k, settled.error)

-----------------------------------------------------------------------------
(* State *)

NoneCreated == [open |-> "none", failed |-> "none"]

NoVerdict == [trade |-> "pending", position |-> "pending"]

Pending == [kind |-> "pending"]

\* No AutoClient has been constructed.
ClientIdle ==
    /\ interval = None
    /\ staggerMs = 0
    /\ staggerTimer = "none"
    /\ scheduled = FALSE
    /\ stopCalled = FALSE
    /\ thoughts = 0
    /\ thoughtsAfterStop = 0

Init ==
    /\ ClientIdle
    /\ reason = None
    /\ tradeArgs = None
    /\ decisions \in DecisionSeqs
    /\ isPaperTrading \in BOOLEAN
    /\ toExecute = <<>>
    /\ idx = 0
    /\ results = <<>>
    /\ pc = "start"
    /\ retryCount = 0
    /\ tradeTx = None
    /\ tx = None
    /\ swapDetails = [present |-> FALSE]
    /\ e = None
    /\ outcome = Pending
    /\ db = <<>>
    /\ verdict = NoVerdict
    /\ tradeCalls = 0
    /\ confirmCalls = 0
    /\ swapCalls = 0
    /\ lookup = "none"
    /\ sleeps = <<>>
    /\ failures = 0
    /\ lastOpError = None
    /\ created = NoneCreated

inputVars == <<decisions, isPaperTrading>>

batchVars == <<toExecute, idx, results>>

retryVars == <<retryCount, tradeTx, tradeCalls, confirmCalls, sleeps, failures,
               lastOpError>>

\* The decision the current loop iteration works on.
Current == decisions[toExecute[idx]]

\* What a validator answered, for the history.
Answer(validation) == IF validation.isValid THEN "accepted" ELSE "rejected"

-----------------------------------------------------------------------------
(* Steps *)

\* The head of the for loop for the i-th kept decision: either the loop is over
\* and results is returned, or executeTradeWithValidation is entered and runs
\* to its first await, with fresh locals.
StartIteration(i) ==
    /\ idx' = i
    /\ pc' = IF i > Len(toExecute') THEN "returned" ELSE "validateTradeParameters"
    /\ retryCount' = 0
    /\ tradeTx' = None
    /\ tx' = None
    /\ swapDetails' = [present |-> FALSE]
    /\ e' = None
    /\ outcome' = Pending
    /\ verdict' = NoVerdict
    /\ tradeCalls' = 0
    /\ confirmCalls' = 0
    /\ swapCalls' = 0
    /\ lookup' = "none"
    /\ sleeps' = <<>>
    /\ failures' = 0
    /\ lastOpError' = None
    /\ created' = NoneCreated
    /\ reason' = None
    /\ tradeArgs' = None

\* executeTradeDecisions is called: results = [], the filter, the first iteration.
ExecuteTradeDecisions ==
    /\ pc = "start"
    /\ results' = <<>>
    /\ toExecute' = Filter(decisions)
    /\ StartIteration(1)
    /\ UNCHANGED <<clientVars, inputVars, db>>

\* Mutant: the catch block rethrows without calling recordFailedTx.
CatchWithoutRecord(error) ==
    /\ e' = error
    /\ pc' = "settled"
    /\ outcome' = Rethrow(error)

\* Mutant: the swap-detail lookup and check sit inside the retried closure, so a
\* failure there goes to the backoff sleep and a new submission.
CatchRetriesSwapDetails(error) ==
    IF pc = "getSwapDetails" /\ ~isPaperTrading /\ retryCount < MAX_RETRIES
    THEN /\ pc' = "sleep"
         /\ UNCHANGED <<e, outcome>>
    ELSE /\ e' = error
         /\ pc' = "createFailed"
         /\ outcome' = outcome

\* catch (e) of executeTradeWithValidation, up to the await of recordFailedTx's create
Catch(error) ==
    /\ e' = error
    /\ pc' = "createFailed"
    /\ outcome' = outcome

\* the try block goes on to its next await
Goto(label) ==
    /\ pc' = label
    /\ UNCHANGED <<e, outcome>>

\* await validateTradeParameters(...) resolves
ValidateTradeParameters ==
    /\ pc = "validateTradeParameters"
    /\ \E validation \in Verdicts(TradeReasons) :
          /\ verdict' = [verdict EXCEPT !.trade = Answer(validation)]
          /\ reason' = IF validation.isValid THEN reason ELSE validation.reason
          /\ IF Rejected(validation)
             THEN Catch(TradeValidationError(validation))
             ELSE Goto("validatePositionSize")
    /\ UNCHANGED <<clientVars, inputVars, batchVars, retryVars, tx, swapDetails, db,
                   swapCalls, lookup, created, tradeArgs>>

\* await validatePositionSize(...) resolves; on acceptance tx = DUMMY_TRANSACTION_HASH
\* and the control reaches the first trade call or, paper trading, getSwapDetails
ValidatePositionSize ==
    /\ pc = "validatePositionSize"
    /\ \E validation \in Verdicts(PositionReasons) :
          /\ verdict' = [verdict EXCEPT !.position = Answer(validation)]
          /\ reason' = IF validation.isValid THEN reason ELSE validation.reason
          /\ IF Rejected(validation)
             THEN /\ Catch(PositionValidationError(validation))
                  /\ tx' = tx
             ELSE /\ tx' = DUMMY_TRANSACTION_HASH
                  /\ Goto(IF SubmitsSwap(isPaperTrading) THEN "trade"
                          ELSE "getSwapDetails")
    /\ UNCHANGED <<clientVars, inputVars, batchVars, retryVars, swapDetails, db,
                   swapCalls, lookup, created, tradeArgs>>

\* catch (error) of executeWithRetry: rethrow at the ceiling (the pipeline's catch
\* takes it), else start the backoff sleep
RetryCatch(error) ==
    /\ failures' = failures + 1
    /\ lastOpError' = error
    /\ tradeTx' = None
    /\ IF RetryExhausted(retryCount) THEN Catch(error) ELSE Goto("sleep")

\* the arguments of solanaAgent.trade for the decision at position k of toExecute:
\* its tokenFrom.address, its amount, its tokenTo.address
TradeArgs(k) == [from |-> k, amount |-> k, to |-> k]

\* await solanaAgent.trade(...) resolves or rejects
Trade ==
    /\ pc = "trade"
    /\ tradeCalls' = tradeCalls + 1
    /\ tradeArgs' = TradeArgs(toExecute[idx])
    /\ \/ \E id \in TxIds :
             /\ tradeTx' = id
             /\ Goto("getTransaction")
             /\ UNCHANGED <<failures, lastOpError>>
       \/ \E error \in SubmitErrors : RetryCatch(error)
    /\ UNCHANGED <<clientVars, inputVars, batchVars, retryCount, confirmCalls,
                   sleeps, tx, swapDetails, db, verdict, swapCalls, lookup, created,
                   reason>>

\* await connection.getTransaction(tradeTx, ...) resolves or rejects;
\* if (!txDetails) throw new Error("Transaction failed to confirm"); return tradeTx
GetTransaction ==
    /\ pc = "getTransaction"
    /\ confirmCalls' = confirmCalls + 1
    /\ \/ /\ tx' = tradeTx
          /\ Goto("getSwapDetails")
          /\ lastOpError' = None
          /\ UNCHANGED <<tradeTx, failures>>
       \/ /\ RetryCatch("Transaction failed to confirm")
          /\ tx' = tx
       \/ \E error \in ConfirmErrors :
             /\ RetryCatch(error)
             /\ tx' = tx
    /\ UNCHANGED <<clientVars, inputVars, batchVars, retryCount, tradeCalls, sleeps,
                   swapDetails, db, verdict, swapCalls, lookup, created, reason,
                   tradeArgs>>

\* Mutant: the retry re-checks the transaction instead of submitting again.
RetriedStepConfirmOnly == "getTransaction"

\* the first await of the retried closure fn: the trade call
RetriedStep == "trade"

\* the backoff setTimeout fires: executeWithRetry(fn, retryCount + 1) calls fn again
Sleep ==
    /\ pc = "sleep"
    /\ sleeps' = Append(sleeps, BackoffTime(retryCount))
    /\ retryCount' = retryCount + 1
    /\ Goto(RetriedStep)
    /\ UNCHANGED <<clientVars, inputVars, batchVars, tradeTx, tradeCalls,
                   confirmCalls, failures, lastOpError, tx, swapDetails, db, verdict,
                   swapCalls, lookup, created, reason, tradeArgs>>

\* await getSwapDetails(connection, tx) resolves or rejects; the validity check;
\* recordSuccessfulTx builds its data and awaits prisma.transaction.create
GetSwapDetails ==
    /\ pc = "getSwapDetails"
    /\ swapCalls' = swapCalls + 1
    /\ \/ \E sd \in SwapYields :
             /\ swapDetails' = sd
             /\ lookup' = "returned"
             /\ IF InvalidSwap(isPaperTrading, sd)
                THEN Catch("Invalid swap details")
                ELSE IF ToStringThrows(sd)
                THEN Catch(TypeErrorMessage)
                ELSE Goto("createOpen")
       \/ \E error \in SwapLookupErrors :
             /\ Catch(error)
             /\ lookup' = "threw"
             /\ swapDetails' = swapDetails
    /\ UNCHANGED <<clientVars, inputVars, batchVars, retryVars, tx, db, verdict,
                   created, reason, tradeArgs>>

\* Mutant: recordSuccessfulTx is awaited outside the try, so a rejection of its
\* create leaves executeTradeWithValidation without recordFailedTx being called.
CreateOpenOutsideTry ==
    /\ pc = "createOpen"
    /\ \/ /\ db' = Append(db, OpenRecord(idx, Current, tx, swapDetails))
          /\ created' = [created EXCEPT !.open = "ok"]
          /\ outcome' = Return(tx)
       \/ /\ created' = [created EXCEPT !.open = "threw"]
          /\ outcome' = [kind |-> "thrown", error |-> PersistError("OPEN")]
          /\ db' = db
    /\ pc' = "settled"
    /\ UNCHANGED <<clientVars, inputVars, batchVars, retryVars, tx, swapDetails, e,
                   verdict, swapCalls, lookup, reason, tradeArgs>>

\* recordSuccessfulTx's await prisma.transaction.create(...) resolves (the row
\* exists, return tx) or rejects (no row; the pipeline's catch takes the error)
CreateOpen ==
    /\ pc = "createOpen"
    /\ \/ /\ db' = Append(db, OpenRecord(idx, Current, tx, swapDetails))
          /\ created' = [created EXCEPT !.open = "ok"]
          /\ outcome' = Return(tx)
          /\ pc' = "settled"
          /\ e' = e
       \/ /\ created' = [created EXCEPT !.open = "threw"]
          /\ Catch(PersistError("OPEN"))
          /\ db' = db
    /\ UNCHANGED <<clientVars, inputVars, batchVars, retryVars, tx, swapDetails,
                   verdict, swapCalls, lookup, reason, tradeArgs>>

\* recordFailedTx's await prisma.transaction.create(...) resolves (the row exists,
\* throw e) or rejects (no row; the rejection leaves executeTradeWithValidation)
CreateFailed ==
    /\ pc = "createFailed"
    /\ \/ /\ db' = Append(db, FailedRecord(idx, Current, e))
          /\ created' = [created EXCEPT !.failed = "ok"]
          /\ outcome' = Rethrow(e)
       \/ /\ created' = [created EXCEPT !.failed = "threw"]
          /\ outcome' = [kind |-> "thrown", error |-> PersistError("FAILED")]
          /\ db' = db
    /\ pc' = "settled"
    /\ UNCHANGED <<clientVars, inputVars, batchVars, retryVars, tx, swapDetails, e,
                   verdict, swapCalls, lookup, reason, tradeArgs>>

\* Mutant: the loop moves on by two positions.
NextPositionSkips(i) == i + 2

\* Mutant: a failed decision ends the loop.
NextPositionStopsOnFailure(i) ==
    IF outcome.kind = "thrown" THEN Len(toExecute) + 1 ELSE i + 1

\* the position of the loop after the iteration at position i
NextPosition(i) == i + 1

\* await executeTradeWithValidation(...) of the loop body resolves or rejects:
\* results.push in the try or in the catch, then the next iteration
Resume ==
    /\ pc = "settled"
    /\ results' = Append(results, ResultOf(toExecute[idx], outcome))
    /\ toExecute' = toExecute
    /\ StartIteration(NextPosition(idx))
    /\ UNCHANGED <<clientVars, inputVars, db>>

Next ==
    \/ ExecuteTradeDecisions
    \/ ValidateTradeParameters
    \/ ValidatePositionSize
    \/ Trade
    \/ GetTransaction
    \/ Sleep
    \/ GetSwapDetails
    \/ CreateOpen
    \/ CreateFailed
    \/ Resume

Spec == Init /\ [][Next]_vars

\* The batch run when every awaited call and every backoff sleep settles: a step
\* that is enabled is eventually taken.
LiveSpec == Spec /\ WF_vars(Next)

-----------------------------------------------------------------------------
(* AutoClient *)

\* No batch is run while the client is followed.
PipelineIdle ==
    /\ reason = None
    /\ tradeArgs = None
    /\ decisions = <<>>
    /\ isPaperTrading = FALSE
    /\ toExecute = <<>>
    /\ idx = 0
    /\ results = <<>>
    /\ pc = "start"
    /\ retryCount = 0
    /\ tradeTx = None
    /\ tx = None
    /\ swapDetails = [present |-> FALSE]
    /\ e = None
    /\ outcome = Pending
    /\ db = <<>>
    /\ verdict = NoVerdict
    /\ tradeCalls = 0
    /\ confirmCalls = 0
    /\ swapCalls = 0
    /\ lookup = "none"
    /\ sleeps = <<>>
    /\ failures = 0
    /\ lastOpError = None
    /\ created = NoneCreated

\* the values of Math.floor(Math.random() * (60 + 1)) * 60 * 1000
StaggerDelays == {m * 60 * 1000 : m \in 0..StaggerMinutes}

\* the handle setInterval(..., AGENT_AUTO_CLIENT_INTERVAL) returns
IntervalHandle == "hourly"

\* new AutoClient(runtime) has returned: interval is null and the stagger
\* timeout is armed with a random delay.
ClientInit ==
    /\ PipelineIdle
    /\ interval = None
    /\ staggerMs \in StaggerDelays
    /\ staggerTimer = "armed"
    /\ scheduled = FALSE
    /\ stopCalled = FALSE
    /\ thoughts = 0
    /\ thoughtsAfterStop = 0

\* the stagger timeout fires: this.interval = setInterval(..., 1 hour)
StaggerFires ==
    /\ staggerTimer = "armed"
    /\ staggerTimer' = "fired"
    /\ interval' = IntervalHandle
    /\ scheduled' = TRUE
    /\ UNCHANGED <<pipelineVars, staggerMs, stopCalled, thoughts, thoughtsAfterStop>>

\* the hourly interval fires: logRandomThoughts(this.runtime) is invoked
IntervalTick ==
    /\ scheduled
    /\ thoughts < MaxThoughts
    /\ thoughts' = thoughts + 1
    /\ thoughtsAfterStop' = IF stopCalled THEN thoughtsAfterStop + 1
                            ELSE thoughtsAfterStop
    /\ UNCHANGED <<pipelineVars, interval, staggerMs, staggerTimer, scheduled,
                   stopCalled>>

\* stop(): clears the interval only if this.interval is set; the stagger
\* timeout is not cancelled
Stop ==
    /\ stopCalled' = TRUE
    /\ IF interval # None
       THEN /\ scheduled' = FALSE
            /\ interval' = None
       ELSE UNCHANGED <<interval, scheduled>>
    /\ UNCHANGED <<pipelineVars, staggerMs, staggerTimer, thoughts, thoughtsAfterStop>>

ClientNext ==
    \/ StaggerFires
    \/ IntervalTick
    \/ Stop

ClientSpec == ClientInit /\ [][ClientNext]_vars

-----------------------------------------------------------------------------
(* Properties *)

\* The rows created for the decision at position k of toExecute.
Rows(k) == {i \in 1..Len(db) : db[i].decision = k}

RowsWith(k, status) == {i \in Rows(k) : db[i].status = status}

\* The pipeline run of the decision at position k has returned or thrown.
Completed(k) == k < idx \/ (k = idx /\ pc = "settled")

\* The result of a run whose recordFailedTx create rejected.
FailureCreateThrew(r) == ~r.success /\ r.error = PersistError("FAILED")

\* C1 (as stated): every decision whose pipeline run has completed has exactly one
\* row in the store, whichever step failed.
C1_ExactlyOneRecord ==
    \A k \in 1..Len(toExecute) : Completed(k) => Cardinality(Rows(k)) = 1

\* C1 (amended): no decision ever has more than one row; a decision whose pipeline
\* run has completed has exactly one row, unless the create of recordFailedTx itself
\* rejected, and then it has none.
C1_OneRecordUnlessFailureCreateRejects ==
    /\ \A k \in 1..Len(toExecute) : Cardinality(Rows(k)) <= 1
    /\ pc = "settled" =>
          Cardinality(Rows(idx)) = IF created.failed = "threw" THEN 0 ELSE 1
    /\ \A k \in 1..Len(results) :
          Cardinality(Rows(k)) = IF FailureCreateThrew(results[k]) THEN 0 ELSE 1

\* C1 witness: the OPEN create rejected, recordFailedTx then created the one row.
C1_Witness ==
    /\ pc = "settled"
    /\ created = [open |-> "threw", failed |-> "ok"]
    /\ Cardinality(Rows(idx)) = 1
    /\ idx = 2
    /\ Cardinality(Rows(1)) = 1

\* C2: the returned results are the decisions with shouldOpen or shouldClose, one
\* result each, in input order; a decision with both flags false never enters the
\* pipeline.
C2_ResultsAreFilteredDecisionsInOrder ==
    LET kept == {i \in 1..Len(decisions) :
                    decisions[i].shouldOpen \/ decisions[i].shouldClose}
    IN  /\ pc = "returned" =>
              /\ Len(results) = Cardinality(kept)
              /\ \A j \in 1..Len(results) : results[j].decision \in kept
              /\ \A j \in 1..Len(results) : \A h \in 1..Len(results) :
                    j < h => results[j].decision < results[h].decision
        /\ pc \notin {"start", "returned"} => toExecute[idx] \in kept

\* C2 witness: of two decisions the first was filtered out, the second has a result.
C2_Witness ==
    /\ pc = "returned"
    /\ Len(decisions) = 2
    /\ ~(decisions[1].shouldOpen \/ decisions[1].shouldClose)
    /\ ~decisions[2].shouldOpen
    /\ Len(results) = 1
    /\ results[1].decision = 2

\* C3: paper trading never calls solanaAgent.trade or connection.getTransaction and
\* never sleeps for a backoff.
C3_PaperTradingMakesNoBackendCall ==
    isPaperTrading => tradeCalls = 0 /\ confirmCalls = 0 /\ sleeps = <<>>

\* C3 witness: a paper trade went through validation and was recorded.
C3_Witness ==
    /\ isPaperTrading
    /\ pc = "settled"
    /\ outcome.kind = "returned"
    /\ created.open = "ok"

\* The result executeTradeDecisions appends for the current decision, once its
\* pipeline run has settled.
CurrentResult == ResultOf(toExecute[idx], outcome)

\* C4 (as stated): a paper trade that both validators accepted ends with
\* success = true and the dummy hash, whatever the swap-detail lookup resolved to
\* (the lookup resolved and no record creation rejected).
C4_PaperTradeSucceedsWhateverTheLookupYields ==
    (/\ pc = "settled"
     /\ isPaperTrading
     /\ verdict = [trade |-> "accepted", position |-> "accepted"]
     /\ lookup = "returned"
     /\ created.open # "threw")
    => /\ CurrentResult.success
       /\ CurrentResult.transactionHash = DUMMY_TRANSACTION_HASH

\* The retried operation (trade + getTransaction) of the current decision has returned.
OperationReturned == ~isPaperTrading /\ (pc = "getSwapDetails" \/ swapCalls > 0)

\* C5: when the retried operation returns after N failed attempts, it was invoked
\* N+1 times, tx is the id the last trade call returned, and the N backoff sleeps
\* lasted 1000*2^0, ..., 1000*2^(N-1) ms in that order.
C5_RetryCountsAndBackoff ==
    OperationReturned =>
        /\ tradeCalls = failures + 1
        /\ tx = tradeTx
        /\ tx \in TxIds
        /\ Len(sleeps) = failures
        /\ \A i \in 1..Len(sleeps) : sleeps[i] = 1000 * (2 ^ (i - 1))

\* C5 witness: two failed attempts, then a successful one.
C5_Witness ==
    /\ OperationReturned
    /\ failures = 2
    /\ tradeCalls = 3
    /\ sleeps = <<1000, 2000>>

\* The retried operation of the current decision has thrown out of executeWithRetry.
RetriesExhausted ==
    /\ ~isPaperTrading
    /\ verdict = [trade |-> "accepted", position |-> "accepted"]
    /\ swapCalls = 0
    /\ pc \in {"createFailed", "settled"}

\* recordFailedTx was called with error and has finished: its create resolved (one
\* FAILED row with the error's message, the error rethrown) or rejected (no row,
\* the rejection thrown instead).
FailureHandled(error) ==
    /\ outcome.kind = "thrown"
    /\ created.failed # "none"
    /\ created.failed = "ok" =>
          /\ outcome.error = error
          /\ Cardinality(Rows(idx)) = 1
          /\ \A i \in Rows(idx) : db[i].status = "FAILED" /\ db[i].failureReason = error
    /\ created.failed = "threw" =>
          /\ outcome.error = PersistError("FAILED")
          /\ Rows(idx) = {}

\* C6 (as stated): when every attempt fails, there are exactly 4 attempts, then a
\* FAILED row, and the result has success = false with the 4th attempt's error.
C6_ExhaustionRecordsAndPropagatesLastError ==
    (pc = "settled" /\ RetriesExhausted) =>
        /\ tradeCalls = 4
        /\ RowsWith(idx, "FAILED") # {}
        /\ ~CurrentResult.success
        /\ CurrentResult.error = lastOpError

\* C6 (amended): there is never a 5th attempt; when every attempt fails there are
\* exactly 4, recordFailedTx is called with the 4th attempt's error, and the result
\* has success = false; when recordFailedTx's create resolves, the FAILED row exists
\* and the result's error is the 4th attempt's error, and when it rejects, no row
\* exists and the result's error is that rejection.
C6_ExhaustionAfterFourAttempts ==
    /\ tradeCalls <= 4
    /\ RetriesExhausted =>
          /\ tradeCalls = 4
          /\ failures = 4
          /\ Len(sleeps) = 3
          /\ e = lastOpError
          /\ e # None
    /\ (pc = "settled" /\ RetriesExhausted) =>
          /\ FailureHandled(lastOpError)
          /\ ~CurrentResult.success
          /\ CurrentResult.transactionHash = ""

\* C6 witness: four trade calls threw and the FAILED row was created with the
\* error of the fourth.
C6_Witness ==
    /\ pc = "settled"
    /\ RetriesExhausted
    /\ confirmCalls = 0
    /\ tradeCalls = 4
    /\ lastOpError = "Blockhash expired"
    /\ created.failed = "ok"
    /\ CurrentResult.error = "Blockhash expired"

\* A validator rejected the current decision.
ValidatorRejected == verdict.trade = "rejected" \/ verdict.position = "rejected"

\* C7: after a validator rejected the decision there is no trade call, no
\* getTransaction call, no getSwapDetails call and no backoff sleep for it; the
\* pipeline goes straight to recordFailedTx and creates no OPEN row.
C7_RejectionMakesNoExternalCall ==
    ValidatorRejected =>
        /\ tradeCalls = 0
        /\ confirmCalls = 0
        /\ swapCalls = 0
        /\ sleeps = <<>>
        /\ created.open = "none"
        /\ RowsWith(idx, "OPEN") = {}
        /\ pc \in {"createFailed", "settled"}

\* C7 witness: validatePositionSize rejected a live trade and the failure was recorded.
C7_Witness ==
    /\ ~isPaperTrading
    /\ verdict = [trade |-> "accepted", position |-> "rejected"]
    /\ pc = "settled"
    /\ created.failed = "ok"
    /\ Cardinality(Rows(idx)) = 1

\* C8: executeTradeDecisions always returns normally with one result per filtered
\* decision, whichever pipeline runs threw: a settled run, returned or thrown, only
\* appends its own result and moves the loop to the next decision, and no step
\* changes a result appended earlier.
C8_BatchIsolatesFailures ==
    /\ [](pc = "returned" =>
            /\ Len(results) = Len(toExecute)
            /\ \A k \in 1..Len(results) : results[k].decision = toExecute[k])
    /\ [][/\ Len(results') >= Len(results)
          /\ \A k \in 1..Len(results) : results'[k] = results[k]
          /\ pc = "settled" =>
                /\ Len(results') = idx
                /\ results'[idx].success = (outcome.kind = "returned")
                /\ idx' = idx + 1
                /\ pc' = IF idx < Len(toExecute) THEN "validateTradeParameters"
                         ELSE "returned"]_vars

\* C8 witness: the first decision's run threw, the second's returned, and the batch
\* returned both results.
C8_Witness ==
    /\ pc = "returned"
    /\ Len(results) = 2
    /\ ~results[1].success
    /\ results[2].success
    /\ results[2].transactionHash \in TxIds

\* A live trade was confirmed and its swap-detail lookup resolved to nothing or to
\* a value with a missing or zero input or output amount.
InvalidDetailsCase ==
    /\ ~isPaperTrading
    /\ lookup = "returned"
    /\ \/ ~swapDetails.present
       \/ "inputAmount" \notin DOMAIN swapDetails
       \/ "outputAmount" \notin DOMAIN swapDetails
       \/ swapDetails.inputAmount = 0
       \/ swapDetails.outputAmount = 0

\* C9 (as stated): in that case a FAILED row with failureReason "Invalid swap
\* details" is created, no OPEN row, and the result has success = false.
C9_InvalidSwapDetailsRecorded ==
    (pc = "settled" /\ InvalidDetailsCase) =>
        /\ \E i \in RowsWith(idx, "FAILED") :
              db[i].failureReason = "Invalid swap details"
        /\ RowsWith(idx, "OPEN") = {}
        /\ ~CurrentResult.success

\* C9 (amended): in that case the pipeline throws "Invalid swap details" into its
\* catch block without calling recordSuccessfulTx, no OPEN row is created and the
\* result has success = false; when recordFailedTx's create resolves, the FAILED row
\* has failureReason "Invalid swap details", and when it rejects, no row exists and
\* the result's error is that rejection.
C9_InvalidSwapDetailsFailTheTrade ==
    InvalidDetailsCase =>
        /\ pc \in {"createFailed", "settled"}
        /\ e = "Invalid swap details"
        /\ created.open = "none"
        /\ RowsWith(idx, "OPEN") = {}
        /\ pc = "settled" =>
              /\ FailureHandled("Invalid swap details")
              /\ ~CurrentResult.success

\* C9 witness: the lookup resolved without an output amount and the FAILED row
\* was created.
C9_Witness ==
    /\ pc = "settled"
    /\ ~isPaperTrading
    /\ lookup = "returned"
    /\ swapDetails = [present |-> TRUE, inputAmount |-> 5]
    /\ created.failed = "ok"
    /\ \E i \in RowsWith(idx, "FAILED") : db[i].failureReason = "Invalid swap details"

\* C10 (as stated): a failure raised at validation, swap execution or swap-detail
\* checking has its FAILED row before the pipeline run settles, and the run settles
\* by throwing the error it caught.
C10_RecordedThenRethrown ==
    (/\ pc = "settled"
     /\ e # None
     /\ created.open = "none"
     /\ e # TypeErrorMessage)
    => /\ RowsWith(idx, "FAILED") # {}
       /\ outcome = [kind |-> "thrown", error |-> e]

\* C10 (amended): once the pipeline has caught an error it only calls recordFailedTx
\* and then throws; the recordFailedTx call has finished before the run settles and
\* before the decision's result is appended; when its create resolves, the row is
\* there and the error thrown is the one caught, and when it rejects, nothing is
\* recorded and the rejection is thrown instead. The failure is never swallowed.
C10_RecordFailureFinishesBeforeRethrow ==
    /\ pc \notin {"start", "returned"} => Len(results) = idx - 1
    /\ e # None => pc \in {"createFailed", "settled"}
    /\ (pc = "createFailed") => created.failed = "none" /\ outcome = Pending
    /\ (pc = "settled" /\ e # None) => FailureHandled(e) /\ ~CurrentResult.success

\* C10 witness: the swap-detail lookup threw, the FAILED row was created, the same
\* error is thrown, and the result is not appended yet.
C10_Witness ==
    /\ pc = "settled"
    /\ lookup = "threw"
    /\ e \in SwapLookupErrors
    /\ created.failed = "ok"
    /\ outcome = [kind |-> "thrown", error |-> e]
    /\ Len(results) = idx - 1

\* C11: when a validator rejected the decision, the failureReason of the FAILED row
\* created for it is the reason that validator returned, behind validateTrade's
\* prefix for that validator; the caught error carries it from the rejection on,
\* unchanged until the run of the decision is over.
C11_FailureReasonIsTheValidatorsReason ==
    /\ [](ValidatorRejected =>
            LET message ==
                    IF verdict.trade = "rejected"
                    THEN "Trade validation failed: " \o reason
                    ELSE "Position size validation failed: " \o reason
            IN  /\ reason # None
                /\ e = message
                /\ \A i \in Rows(idx) :
                      db[i].status = "FAILED" /\ db[i].failureReason = message)
    /\ [][(ValidatorRejected /\ idx' = idx) =>
            /\ e' = e
            /\ reason' = reason
            /\ verdict' = verdict]_vars

\* C11 witness: validateTradeParameters rejected for the trust score and the row
\* carries that reason.
C11_Witness ==
    /\ pc = "settled"
    /\ verdict.trade = "rejected"
    /\ reason = "Trust score too low"
    /\ \E i \in Rows(idx) :
          db[i].failureReason = "Trade validation failed: Trust score too low"

\* C12: submit and confirm are retried as one unit. Every attempt starts with a
\* trade call with the decision's own arguments, so the trade calls of a decision
\* are as many as its attempts; getTransaction is only ever called with the id the
\* same attempt's trade call returned, and a failed attempt's id is dropped before
\* the backoff sleep, after which the next call is a trade call again.
C12_RetryResubmits ==
    /\ [](/\ tradeCalls > 0 => tradeArgs = TradeArgs(toExecute[idx])
          /\ confirmCalls <= tradeCalls
          /\ pc = "trade" => tradeCalls = retryCount /\ failures = retryCount
          /\ pc = "getTransaction" =>
                /\ tradeCalls = retryCount + 1
                /\ failures = retryCount
                /\ confirmCalls <= retryCount
                /\ tradeTx \in TxIds
          /\ pc = "sleep" =>
                /\ tradeCalls = retryCount + 1
                /\ failures = retryCount + 1
                /\ tradeTx = None
                /\ retryCount < MAX_RETRIES)
    /\ [][pc = "sleep" =>
            /\ pc' = "trade"
            /\ retryCount' = retryCount + 1
            /\ tradeCalls' = tradeCalls]_vars
    /\ [][confirmCalls' > confirmCalls =>
            /\ pc = "getTransaction"
            /\ confirmCalls' = confirmCalls + 1
            /\ tradeTx \in TxIds]_vars

\* C12 witness: four trade calls each returned an id and each confirmation failed.
C12_Witness ==
    /\ pc = "createFailed"
    /\ tradeCalls = 4
    /\ confirmCalls = 4
    /\ failures = 4
    /\ lastOpError = "Transaction failed to confirm"

\* C13 (as stated): when the create of the OPEN row rejects, the rejection leaves
\* the pipeline without recordFailedTx being called.
C13_RecordSuccessFailureIsNotCaught ==
    created.open = "threw" => pc # "createFailed" /\ created.failed = "none"

\* C13 (amended): when the create of the OPEN row rejects, the rejection is caught
\* by the pipeline's own catch block: no OPEN row exists, recordFailedTx is called
\* with that rejection, and the run settles as for any other caught failure; only a
\* rejection of recordFailedTx's own create leaves the pipeline unrecorded.
C13_RecordSuccessFailureIsCaught ==
    created.open = "threw" =>
        /\ e = PersistError("OPEN")
        /\ pc \in {"createFailed", "settled"}
        /\ RowsWith(idx, "OPEN") = {}
        /\ pc = "settled" => FailureHandled(PersistError("OPEN"))

\* C13 witness: the OPEN create rejected after a confirmed live swap and the FAILED
\* row carries that rejection.
C13_Witness ==
    /\ pc = "settled"
    /\ ~isPaperTrading
    /\ created = [open |-> "threw", failed |-> "ok"]
    /\ \E i \in RowsWith(idx, "FAILED") : db[i].failureReason = PersistError("OPEN")
    /\ outcome.error = PersistError("OPEN")

\* C14: once the retried operation has returned a transaction id, the decision
\* sees no further trade call, getTransaction call or backoff sleep, whatever
\* getSwapDetails returns or throws: the pipeline only goes on to the lookup, the
\* record creations and its settlement.
C14_SwapDetailFailureIsNotRetried ==
    /\ [](OperationReturned =>
            /\ pc \in {"getSwapDetails", "createOpen", "createFailed", "settled"}
            /\ swapCalls <= 1)
    /\ [][(OperationReturned /\ idx' = idx) =>
            /\ tradeCalls' = tradeCalls
            /\ confirmCalls' = confirmCalls
            /\ sleeps' = sleeps
            /\ retryCount' = retryCount
            /\ tx' = tx]_vars

\* C14 witness: after one failed attempt the operation returned an id, the lookup
\* then threw, and the counts are those of the moment the operation returned.
C14_Witness ==
    /\ pc = "settled"
    /\ ~isPaperTrading
    /\ lookup = "threw"
    /\ tx \in TxIds
    /\ tradeCalls = 2
    /\ confirmCalls = 2
    /\ sleeps = <<1000>>

\* C15: decisions are processed one at a time in decision order: while the decision
\* at position idx is in the pipeline, every earlier decision has its result and no
\* later one has any row; a row of the current decision exists only once its run
\* has settled; and the validation of a decision starts only from the start of the
\* batch or from the settled run of the decision just before it, whose result is
\* appended in the same step.
C15_OneDecisionAtATime ==
    /\ [](pc # "start" => Len(results) = idx - 1)
    /\ [](\A i \in 1..Len(db) :
             /\ db[i].decision <= idx
             /\ db[i].decision = idx => pc = "settled")
    /\ [][(pc' = "validateTradeParameters" /\ pc # "validateTradeParameters") =>
            /\ pc \in {"start", "settled"}
            /\ idx' = idx + 1
            /\ Len(results') = idx
            /\ tradeCalls' = 0 /\ confirmCalls' = 0 /\ swapCalls' = 0]_vars

\* C15 witness: the second decision starts its validation with the first one's
\* result and row in place.
C15_Witness ==
    /\ pc = "validateTradeParameters"
    /\ idx = 2
    /\ Len(results) = 1
    /\ results[1].decision = toExecute[1]
    /\ Cardinality(Rows(1)) = 1

\* A live swap was submitted and confirmed, and the run then failed.
FailedAfterConfirmation ==
    /\ pc = "settled"
    /\ outcome.kind = "thrown"
    /\ tx \in TxIds

\* C16: every FAILED record has the dummy transaction hash and the amounts "0";
\* when a run fails after its swap was confirmed on-chain (invalid swap details, a
\* throwing amount conversion, a failed lookup or a failed success record), the
\* real transaction id is in no record of that decision and the batch result of
\* the decision has the empty string as its transactionHash. A record, once
\* created, is never rewritten.
C16_FailedRecordsCarryTheDummyHash ==
    /\ [](\A i \in 1..Len(db) :
             db[i].status = "FAILED" =>
                /\ db[i].transactionHash = DUMMY_TRANSACTION_HASH
                /\ db[i].tokenFromAmount = "0"
                /\ db[i].tokenToAmount = "0")
    /\ [](FailedAfterConfirmation =>
             /\ \A i \in Rows(idx) : db[i].transactionHash # tx
             /\ CurrentResult.transactionHash = ""
             /\ CurrentResult.transactionHash # tx)
    /\ [](\A k \in 1..Len(results) :
             ~results[k].success => results[k].transactionHash = "")
    /\ [][/\ Len(db') >= Len(db)
          /\ \A i \in 1..Len(db) : db'[i] = db[i]]_vars

\* C16 witness: recording the success of a confirmed swap failed, and the FAILED
\* row of that run is in place.
C16_Witness ==
    /\ FailedAfterConfirmation
    /\ created.open = "threw"
    /\ created.failed = "ok"
    /\ swapDetails.present
    /\ RowsWith(idx, "FAILED") # {}

\* C17 (as stated): when executeTradeDecisions has returned, a successful result
\* has an OPEN row with the result's transactionHash, and a failed result has a
\* FAILED row and no OPEN row.
C17_ResultsAgreeWithRecords ==
    pc = "returned" =>
       \A k \in 1..Len(results) :
          IF results[k].success
          THEN \E i \in RowsWith(k, "OPEN") :
                  db[i].transactionHash = results[k].transactionHash
          ELSE /\ RowsWith(k, "FAILED") # {}
               /\ RowsWith(k, "OPEN") = {}

\* C17 (amended): a successful result has exactly one row, an OPEN row with the
\* result's transactionHash; a failed result has no OPEN row and has one FAILED row
\* whose failureReason is the result's error, unless the create of recordFailedTx
\* rejected, and then it has no row at all. The id a live run returns is the one
\* returned by the submit of the attempt whose confirmation succeeded.
C17_ResultsAgreeUnlessFailureCreateRejects ==
    /\ [](\A k \in 1..Len(results) :
             IF results[k].success
             THEN /\ Cardinality(Rows(k)) = 1
                  /\ \A i \in Rows(k) :
                        /\ db[i].status = "OPEN"
                        /\ db[i].transactionHash = results[k].transactionHash
             ELSE /\ RowsWith(k, "OPEN") = {}
                  /\ IF FailureCreateThrew(results[k])
                     THEN Rows(k) = {}
                     ELSE /\ Cardinality(Rows(k)) = 1
                          /\ \A i \in Rows(k) :
                                /\ db[i].status = "FAILED"
                                /\ db[i].failureReason = results[k].error)
    /\ []((pc = "settled" /\ outcome.kind = "returned" /\ ~isPaperTrading) =>
             /\ outcome.tx = tradeTx
             /\ tradeTx \in TxIds)
    /\ [][(pc = "getTransaction" /\ pc' = "getSwapDetails") =>
             /\ tx' = tradeTx
             /\ tradeTx' = tradeTx]_vars

\* C17 witness: a live batch has returned with a successful and a failed result,
\* the failed one with its FAILED row.
C17_Witness ==
    /\ pc = "returned"
    /\ ~isPaperTrading
    /\ Len(results) = 2
    /\ results[1].success
    /\ results[1].transactionHash \in TxIds
    /\ ~results[2].success
    /\ RowsWith(2, "FAILED") # {}

\* The result r is what the loop body pushes for a run that settled as o.
PushedFor(r, o) ==
    IF o.kind = "returned"
    THEN r.success /\ r.transactionHash = o.tx
    ELSE ~r.success /\ r.error = o.error

\* C18: every result is well formed: a successful one has a non-empty
\* transactionHash and no error field; a failed one has the empty string as its
\* transactionHash and carries the error its pipeline run threw; results only
\* grows by one push per settled run, and a pushed result never changes.
C18_ResultsAreWellFormed ==
    /\ [](\A k \in 1..Len(results) :
             IF results[k].success
             THEN /\ results[k].transactionHash # ""
                  /\ "error" \notin DOMAIN results[k]
             ELSE /\ results[k].transactionHash = ""
                  /\ "error" \in DOMAIN results[k]
                  /\ results[k].error # None)
    /\ [][/\ Len(results') \in {Len(results), Len(results) + 1}
          /\ \A k \in 1..Len(results) : results'[k] = results[k]
          /\ Len(results') = Len(results) + 1 =>
                /\ pc = "settled"
                /\ PushedFor(results'[Len(results')], outcome)]_vars

\* C18 witness: a failed result of a run that had a confirmed transaction id is
\* followed by a later run that has settled with a returned id.
C18_Witness ==
    /\ pc = "settled"
    /\ idx = 2
    /\ outcome.kind = "returned"
    /\ Len(results) = 1
    /\ ~results[1].success
    /\ results[1].error = "Invalid swap details"

\* C19: when every external call and every backoff sleep eventually settles,
\* executeTradeDecisions eventually returns, with one result per kept decision,
\* and no decision ever has more than MAX_RETRIES + 1 = 4 submit calls or more
\* than MAX_RETRIES = 3 backoff sleeps.
C19_BatchTerminatesWithinTheRetryBudget ==
    /\ <>(pc = "returned" /\ Len(results) = Len(toExecute))
    /\ [](pc = "returned" => [](pc = "returned"))
    /\ [](/\ tradeCalls <= MAX_RETRIES + 1
          /\ tradeCalls <= 4
          /\ confirmCalls <= tradeCalls
          /\ Len(sleeps) <= MAX_RETRIES
          /\ Len(sleeps) <= 3)

\* C19 witness: the batch has returned although the last decision used up its
\* retries on failing submits.
C19_Witness ==
    /\ pc = "returned"
    /\ ~isPaperTrading
    /\ Len(results) = Len(toExecute)
    /\ Len(results) = 2
    /\ ~results[2].success
    /\ results[2].error \in SubmitErrors

\* C20: once stop() has been called, no hourly interval is active, the interval
\* field is null and logRandomThoughts is not invoked again.
C20_StopSilencesTheClient ==
    stopCalled =>
       /\ ~scheduled
       /\ interval = None
       /\ thoughtsAfterStop = 0

====
